---- MODULE Spec2Model ----
(***************************************************************************)
(* Model of the blog content pipeline of lib/blogs.ts                      *)
(* (src/unnamed/part_000): the content directory, getAllSlugs,             *)
(* getPostBySlug, getAllPosts and getAllPostsMeta.                         *)
(*                                                                         *)
(* File names and slugs are sequences of one-character strings, so that    *)
(* endsWith(".md"), the /\.md$/ replacement and the `${slug}.md` path are  *)
(* computed rather than assumed.  Frontmatter values are tagged JavaScript *)
(* values, so that truthiness, typeof and `!== false` are computed too.    *)
(***************************************************************************)
EXTENDS Integers, Sequences, FiniteSets, TLC

VARIABLES dirExists, files, req

vars == <<dirExists, files, req>>

(***************************************************************************)
(* Bounds                                                                  *)
(***************************************************************************)
\* Largest number of entries the content directory holds.
MaxFiles == 3

\* The requests that can be in flight.
Reqs == {1, 2}

(***************************************************************************)
(* JavaScript values found in frontmatter                                  *)
(***************************************************************************)
Undefined == [t |-> "undefined"]

Str(s) == [t |-> "string", s |-> s]

Num(n) == [t |-> "number", n |-> n]

Bool(b) == [t |-> "boolean", b |-> b]

\* typeof v
TypeOf(v) == v.t

\* ToBoolean(v): what `!v` negates.
Truthy(v) ==
  CASE v.t = "undefined" -> FALSE
    [] v.t = "string" -> v.s # ""
    [] v.t = "number" -> v.n # 0
    [] v.t = "boolean" -> v.b
    [] OTHER -> TRUE

\* NotStrictlyFalse that also takes the string "false" for false.
NotFalseNorFalseString(v) ==
  /\ ~(v.t = "boolean" /\ v.b = FALSE)
  /\ ~(v.t = "string" /\ v.s = "false")

\* NotStrictlyFalse as a truthiness test: an absent key counts as false.
NotStrictlyFalseTruthy(v) == Truthy(v)

\* v !== false
NotStrictlyFalse(v) == ~(v.t = "boolean" /\ v.b = FALSE)

(***************************************************************************)
(* Dates.  A time value is a number of days since the epoch (getTime() in  *)
(* units of 86 400 000 ms) or NaN.                                         *)
(***************************************************************************)
NaN == [nan |-> TRUE, t |-> 0]

Time(t) == [nan |-> FALSE, t |-> t]

\* Date.parse on the date strings of the model.
DateParse(s) ==
  CASE s = "2026-01-01" -> Time(20454)
    [] s = "2026-02-01" -> Time(20485)
    [] s = "2026-02-01T00:00:00.000Z" -> Time(20485)
    [] s = "2026-03-01" -> Time(20513)
    [] OTHER -> NaN

\* new Date(v).getTime()
NewDateGetTime(v) ==
  CASE v.t = "string" -> DateParse(v.s)
    [] v.t = "number" -> Time(0)
    [] v.t = "boolean" -> Time(0)
    [] OTHER -> NaN

\* isNaN(x)
IsNaN(x) == x.nan

\* x - y on time values
TimeMinus(x, y) == IF x.nan \/ y.nan THEN NaN ELSE Time(x.t - y.t)

(***************************************************************************)
(* File names, slugs and paths                                             *)
(***************************************************************************)
MdExt == <<".", "m", "d">>

\* EndsWithMd that ignores letter case: ".MD" passes too.
EndsWithMdAnyCase(name) ==
  /\ Len(name) >= Len(MdExt)
  /\ SubSeq(name, Len(name) - Len(MdExt) + 1, Len(name))
       \in {MdExt, <<".", "M", "D">>}

\* fileName.endsWith(".md")
EndsWithMd(name) ==
  /\ Len(name) >= Len(MdExt)
  /\ SubSeq(name, Len(name) - Len(MdExt) + 1, Len(name)) = MdExt

\* fileName.replace(/\.md$/, "")
StripMd(name) ==
  IF EndsWithMd(name) THEN SubSeq(name, 1, Len(name) - Len(MdExt)) ELSE name

\* path.join(blogsDirectory, `${slug}.md`), relative to blogsDirectory
FullPath(slug) == slug \o MdExt

(***************************************************************************)
(* The content store: the entries of the blogs directory                   *)
(***************************************************************************)
\* Entries the directory can hold: three markdown files, two of which differ
\* only by letter case, and an entry whose extension is not ".md".
FileNames ==
  { <<"a", ".", "m", "d">>,
    <<"A", ".", "m", "d">>,
    <<"b", ".", "m", "d">>,
    <<"a", ".", "M", "D">> }

MdNames == {n \in FileNames : EndsWithMd(n)}

\* The frontmatter block of a file: the keys the pipeline reads.
FM(title, date, description, published) ==
  [title |-> title, date |-> date, description |-> description,
   tags |-> Undefined, published |-> published]

\* A file: its frontmatter block and its markdown body.
File(front, body) == [front |-> front, body |-> body]

Hello == File(FM(Str("Hello"), Str("2026-01-01"), Str("first"), Undefined), "# Hi")

World == File(FM(Str("World"), Str("2026-02-01"), Str("second"), Bool(TRUE)), "$x$")

Tie == File(FM(Str("Tie"), Str("2026-02-01T00:00:00.000Z"), Undefined, Str("false")), "# Hi")

Draft == File(FM(Str("Draft"), Str("2026-03-01"), Str("third"), Bool(FALSE)), "<b>x</b>")

NoTitle == File(FM(Undefined, Str("2026-01-01"), Str("d"), Undefined), "# Hi")

EmptyTitle == File(FM(Str(""), Str("2026-01-01"), Str("d"), Undefined), "# Hi")

NumTitle == File(FM(Num(42), Str("2026-01-01"), Str("d"), Bool(FALSE)), "# Hi")

NoDate == File(FM(Str("NoDate"), Undefined, Str("d"), Undefined), "# Hi")

BadDate == File(FM(Str("BadDate"), Str("soon"), Str("d"), Undefined), "# Hi")

NoTitleBadDate == File(FM(Undefined, Str("soon"), Undefined, Undefined), "# Hi")

\* What a markdown file can contain.
MdContents ==
  { Hello, World, Tie, Draft, NoTitle, EmptyTitle, NumTitle, NoDate, BadDate,
    NoTitleBadDate }

\* An entry that is not a markdown post (its content is never read).
Other == File(FM(Undefined, Undefined, Undefined, Undefined), "")

ContentsOf(n) == IF EndsWithMd(n) THEN MdContents ELSE {Other}

\* The directory without entries.
NoFiles == [n \in {} |-> Other]

\* fs.existsSync(path) for a path directly under the blogs directory
ExistsSync(path) == dirExists /\ path \in DOMAIN files

\* matter(fileContents): the frontmatter data and the body that follows it
Matter(f) == [data |-> f.front, content |-> f.body]

(***************************************************************************)
(* Errors and results                                                      *)
(***************************************************************************)
NoError == [header |-> "", slug |-> <<>>, items |-> <<>>]

\* new Error(`[blogs/${slug}.md] Validation failed:\n  - ${errors.join(...)}`)
ValidationError(slug, errors) ==
  [header |-> "Validation failed", slug |-> slug, items |-> errors]

\* new Error(`Duplicate slug detected: ${slug}`)
DuplicateError(slug) ==
  [header |-> "Duplicate slug detected", slug |-> slug, items |-> <<>>]

Returned(v) == [kind |-> "value", value |-> v, error |-> NoError]

ReturnedNull == [kind |-> "null", value |-> <<>>, error |-> NoError]

Thrown(e) == [kind |-> "error", value |-> <<>>, error |-> e]

Pending == [kind |-> "none", value |-> <<>>, error |-> NoError]

(***************************************************************************)
(* validateFrontmatter                                                     *)
(***************************************************************************)
\* TitleErrors with the typeof test alone: an empty title passes.
TitleErrorsTypeOnly(data) ==
  IF TypeOf(data.title) # "string"
  THEN <<"Missing or invalid 'title' field">>
  ELSE <<>>

TitleErrors(data) ==
  IF ~Truthy(data.title) \/ TypeOf(data.title) # "string"
  THEN <<"Missing or invalid 'title' field">>
  ELSE <<>>

\* DateErrors with the presence test alone: an unparseable date passes.
DateErrorsPresenceOnly(data) ==
  IF ~Truthy(data.date) THEN <<"Missing 'date' field">> ELSE <<>>

\* The message `Invalid date format: ${data.date}` is kept without the value.
DateErrors(data) ==
  IF ~Truthy(data.date)
  THEN <<"Missing 'date' field">>
  ELSE IF IsNaN(NewDateGetTime(data.date))
       THEN <<"Invalid date format">>
       ELSE <<>>

\* ValidationErrors that treats a missing description as an error.
ValidationErrorsStrict(data) ==
  TitleErrors(data) \o DateErrors(data) \o
    (IF ~Truthy(data.description)
     THEN <<"Missing 'description' field (recommended for SEO)">>
     ELSE <<>>)

\* ValidationErrors that stops at the first field found wrong.
ValidationErrorsFailFast(data) ==
  IF TitleErrors(data) # <<>> THEN TitleErrors(data) ELSE DateErrors(data)

\* The errors array at the end of validateFrontmatter.
ValidationErrors(data) == TitleErrors(data) \o DateErrors(data)

\* The warnings array at the end of validateFrontmatter.
ValidationWarnings(data) ==
  IF ~Truthy(data.description)
  THEN <<"Missing 'description' field (recommended for SEO)">>
  ELSE <<>>

\* The console.warn lines validateFrontmatter writes for slug.
WarnLines(slug, warnings) ==
  [k \in 1..Len(warnings) |-> [slug |-> slug, text |-> warnings[k]]]

(***************************************************************************)
(* getAllSlugs                                                             *)
(***************************************************************************)
RECURSIVE SelectMd(_)
\* fileNames.filter((fileName) => fileName.endsWith(".md"))
SelectMd(names) ==
  IF names = <<>> THEN <<>>
  ELSE IF EndsWithMd(Head(names))
       THEN <<Head(names)>> \o SelectMd(Tail(names))
       ELSE SelectMd(Tail(names))

\* .map((fileName) => fileName.replace(/\.md$/, ""))
MapStripMd(names) == [k \in 1..Len(names) |-> StripMd(names[k])]

\* FirstDuplicate without the `seen` test: nothing is ever found.
FirstDuplicateNever(slugs) == [found |-> FALSE, slug |-> <<>>]

\* The for loop over slugs with the `seen` set: the first slug that was seen
\* before, or <<>> boxed as "none".
FirstDuplicate(slugs) ==
  LET dups == {k \in 1..Len(slugs) : \E j \in 1..(k - 1) : slugs[j] = slugs[k]}
  IN IF dups = {} THEN [found |-> FALSE, slug |-> <<>>]
     ELSE [found |-> TRUE,
           slug |-> slugs[CHOOSE k \in dups : \A j \in dups : k <= j]]

\* getAllSlugs() after readdirSync returned fileNames.
SlugsOf(fileNames) ==
  LET slugs == MapStripMd(SelectMd(fileNames))
      dup == FirstDuplicate(slugs)
  IN IF dup.found THEN Thrown(DuplicateError(dup.slug)) ELSE Returned(slugs)

\* What fs.readdirSync can return for the entries S.  A quiet directory is
\* listed once each, in no particular order; POSIX leaves open whether an
\* entry that is removed or created during the scan is returned, so a listing
\* may also name one entry twice (the case the `seen` check is written for).
Listings(S) ==
  LET n == Cardinality(S)
  IN UNION { {p \in [1..k -> S] : \A x \in S : \E i \in 1..k : p[i] = x} :
             k \in {n, n + 1} }

(***************************************************************************)
(* markdownToHtml and getPostBySlug                                        *)
(***************************************************************************)
\* The unified() chain on the markdown bodies of the model.
MarkdownToHtml(markdown) ==
  CASE markdown = "# Hi" -> "<h1>Hi</h1>"
    [] markdown = "$x$" -> "<p><span class=katex>x</span></p>"
    [] markdown = "<b>x</b>" -> "<p><b>x</b></p>"
    [] OTHER -> ""

\* MakePost that reports every post as published.
MakePostAlwaysPublished(slug, data, content, contentHtml) ==
  [slug |-> slug,
   title |-> data.title,
   description |-> data.description,
   date |-> data.date,
   tags |-> data.tags,
   published |-> TRUE,
   content |-> content,
   contentHtml |-> contentHtml]

\* The object getPostBySlug returns.
MakePost(slug, data, content, contentHtml) ==
  [slug |-> slug,
   title |-> data.title,
   description |-> data.description,
   date |-> data.date,
   tags |-> data.tags,
   published |-> NotStrictlyFalse(data.published),
   content |-> content,
   contentHtml |-> contentHtml]

\* getPostBySlug(slug) up to its await: "null" when the file does not exist,
\* "throw" when validateFrontmatter throws, "await" when markdownToHtml is
\* called; with the console.warn lines written on the way.
ReadExisting(slug) ==
  LET parsed == Matter(files[FullPath(slug)])
      errors == ValidationErrors(parsed.data)
      console == WarnLines(slug, ValidationWarnings(parsed.data))
  IN IF Len(errors) > 0
     THEN [kind |-> "throw", parsed |-> parsed,
           error |-> ValidationError(slug, errors), console |-> console]
     ELSE [kind |-> "await", parsed |-> parsed, error |-> NoError,
           console |-> console]

\* ReadPost without the existsSync check: readFileSync throws ENOENT.
ReadPostUnchecked(slug) ==
  IF ~ExistsSync(FullPath(slug))
  THEN [kind |-> "throw", parsed |-> Matter(Other),
        error |-> [header |-> "ENOENT", slug |-> slug, items |-> <<>>],
        console |-> <<>>]
  ELSE ReadExisting(slug)

\* ReadPost that catches the validation error and reports the post as absent.
ReadPostSwallow(slug) ==
  IF ~ExistsSync(FullPath(slug))
  THEN [kind |-> "null", parsed |-> Matter(Other), error |-> NoError,
        console |-> <<>>]
  ELSE LET rd == ReadExisting(slug)
       IN IF rd.kind = "throw"
          THEN [rd EXCEPT !.kind = "null", !.error = NoError]
          ELSE rd

ReadPost(slug) ==
  IF ~ExistsSync(FullPath(slug))
  THEN [kind |-> "null", parsed |-> Matter(Other), error |-> NoError,
        console |-> <<>>]
  ELSE ReadExisting(slug)

(***************************************************************************)
(* getAllPosts and getAllPostsMeta                                         *)
(***************************************************************************)
\* CompareFn with the operands swapped: oldest first.
CompareFnAscending(a, b) ==
  TimeMinus(NewDateGetTime(a.date), NewDateGetTime(b.date))

\* (a, b) => new Date(b.date).getTime() - new Date(a.date).getTime()
CompareFn(a, b) == TimeMinus(NewDateGetTime(b.date), NewDateGetTime(a.date))

\* Array.prototype.sort moves a behind b only when the comparator is > 0.
Positive(x) == ~x.nan /\ x.t > 0

RECURSIVE InsertSorted(_, _)
InsertSorted(s, x) ==
  IF s = <<>> THEN <<x>>
  ELSE LET e == s[Len(s)]
       IN IF Positive(CompareFn(e, x))
          THEN InsertSorted(SubSeq(s, 1, Len(s) - 1), x) \o <<e>>
          ELSE s \o <<x>>

RECURSIVE SortPosts(_)
\* posts.sort(compareFn): a stable sort
SortPosts(posts) ==
  IF posts = <<>> THEN <<>>
  ELSE InsertSorted(SortPosts(SubSeq(posts, 1, Len(posts) - 1)),
                    posts[Len(posts)])

\* ({ slug, title, description, date, tags }) => ({ ... })
ToMeta(post) ==
  [slug |-> post.slug, title |-> post.title, description |-> post.description,
   date |-> post.date, tags |-> post.tags]

\* posts.map(...) of getAllPostsMeta
MapToMeta(posts) == [k \in 1..Len(posts) |-> ToMeta(posts[k])]

\* Listed without the published filter.
ListedUnfiltered(post) == TRUE

\* `post && post.published !== false`, for a post that is not null
Listed(post) == post.published # FALSE

(***************************************************************************)
(* Requests                                                                *)
(***************************************************************************)
Ops == {"getAllSlugs", "getPostBySlug", "getAllPosts", "getAllPostsMeta"}

\* Slugs a caller asks for: those of the markdown names, the stem of the
\* non-markdown entry's name, and one that no entry has.
SlugArgs == {StripMd(n) : n \in MdNames} \cup {<<"a", ".", "M", "D">>, <<"z">>}

Idle ==
  [op |-> "none", arg |-> <<>>, pc |-> "idle", fileNames |-> <<>>,
   slugs |-> <<>>, i |-> 1, posts |-> <<>>, cur |-> Matter(Other),
   result |-> Pending, console |-> <<>>]

\* No request is in flight and no result is held.
Quiet == \A r \in Reqs : req[r].pc = "idle"

Init ==
  /\ dirExists = FALSE
  /\ files = NoFiles
  /\ req = [r \in Reqs |-> Idle]

(***************************************************************************)
(* The author's changes to the content directory                           *)
(***************************************************************************)
MkDir ==
  /\ ~dirExists
  /\ dirExists' = TRUE
  /\ UNCHANGED <<files, req>>

RmDir ==
  /\ dirExists
  /\ dirExists' = FALSE
  /\ files' = NoFiles
  /\ UNCHANGED req

WriteFile(n, c) ==
  /\ dirExists
  /\ n \in DOMAIN files \/ Cardinality(DOMAIN files) < MaxFiles
  /\ files' = [m \in DOMAIN files \cup {n} |-> IF m = n THEN c ELSE files[m]]
  /\ UNCHANGED <<dirExists, req>>

Unlink(n) ==
  /\ dirExists
  /\ n \in DOMAIN files
  /\ files' = [m \in DOMAIN files \ {n} |-> files[m]]
  /\ UNCHANGED <<dirExists, req>>

(***************************************************************************)
(* The operations, one action per stretch of code between suspensions      *)
(***************************************************************************)
\* GetAllSlugs without the existsSync check: readdirSync throws ENOENT.
GetAllSlugsUnchecked ==
  IF ~dirExists
  THEN {[result |-> Thrown([header |-> "ENOENT", slug |-> <<>>,
                            items |-> <<>>]),
         fileNames |-> <<>>, console |-> <<>>]}
  ELSE {[result |-> SlugsOf(fileNames), fileNames |-> fileNames,
         console |-> <<>>] :
          fileNames \in Listings(DOMAIN files)}

\* getAllSlugs() as a whole: it is synchronous.
GetAllSlugs ==
  IF ~dirExists
  THEN {[result |-> Returned(<<>>), fileNames |-> <<>>,
         console |-> <<[slug |-> <<>>, text |-> "Blogs directory not found"]>>]}
  ELSE {[result |-> SlugsOf(fileNames), fileNames |-> fileNames,
         console |-> <<>>] :
          fileNames \in Listings(DOMAIN files)}

\* CallGetAllSlugs that creates the directory when it is missing.
CallGetAllSlugsMkdir(r) ==
  /\ req[r].pc = "idle"
  /\ \E out \in GetAllSlugs :
       req' = [req EXCEPT ![r] =
                 [Idle EXCEPT !.op = "getAllSlugs", !.pc = "done",
                              !.fileNames = out.fileNames,
                              !.result = out.result, !.console = out.console]]
  /\ dirExists' = TRUE
  /\ UNCHANGED files

\* A caller invokes getAllSlugs().
CallGetAllSlugs(r) ==
  /\ req[r].pc = "idle"
  /\ \E out \in GetAllSlugs :
       req' = [req EXCEPT ![r] =
                 [Idle EXCEPT !.op = "getAllSlugs", !.pc = "done",
                              !.fileNames = out.fileNames,
                              !.result = out.result, !.console = out.console]]
  /\ UNCHANGED <<dirExists, files>>

\* CallGetPostBySlug in front of a cache keyed by slug: a result still held
\* for the slug is returned without reading the file.
CallGetPostBySlugMemo(r, slug) ==
  /\ req[r].pc = "idle"
  /\ LET held == {o \in Reqs : /\ req[o].pc = "done"
                               /\ req[o].op = "getPostBySlug"
                               /\ req[o].arg = slug}
         rd == ReadPost(slug)
         started == [Idle EXCEPT !.op = "getPostBySlug", !.arg = slug,
                                 !.console = rd.console]
     IN req' = [req EXCEPT ![r] =
                  CASE held # {} -> req[CHOOSE o \in held : TRUE]
                    [] rd.kind = "null" ->
                         [started EXCEPT !.pc = "done", !.result = ReturnedNull]
                    [] rd.kind = "throw" ->
                         [started EXCEPT !.pc = "done",
                                         !.result = Thrown(rd.error)]
                    [] OTHER ->
                         [started EXCEPT !.pc = "render", !.cur = rd.parsed]]
  /\ UNCHANGED <<dirExists, files>>

\* A caller invokes getPostBySlug(slug): the code up to `await markdownToHtml`.
CallGetPostBySlug(r, slug) ==
  /\ req[r].pc = "idle"
  /\ LET rd == ReadPost(slug)
         started == [Idle EXCEPT !.op = "getPostBySlug", !.arg = slug,
                                 !.console = rd.console]
     IN req' = [req EXCEPT ![r] =
                  CASE rd.kind = "null" ->
                         [started EXCEPT !.pc = "done", !.result = ReturnedNull]
                    [] rd.kind = "throw" ->
                         [started EXCEPT !.pc = "done",
                                         !.result = Thrown(rd.error)]
                    [] OTHER ->
                         [started EXCEPT !.pc = "render", !.cur = rd.parsed]]
  /\ UNCHANGED <<dirExists, files>>

(***************************************************************************)
(* The detail route, app/blog/[slug]/page.tsx                              *)
(***************************************************************************)
\* The two entry points of the detail route.
DetailOps == {"generateMetadata", "BlogPost"}

\* The operations that load one post by its slug.
SlugOps == {"getPostBySlug"} \cup DetailOps

\* notFound(): the route answers 404.
NotFound == [kind |-> "notFound", value |-> <<>>, error |-> NoError]

\* title.toUpperCase() on the titles of the model.
ToUpperCase(str) ==
  CASE str = "Hello" -> "HELLO"
    [] str = "World" -> "WORLD"
    [] str = "Tie" -> "TIE"
    [] str = "Draft" -> "DRAFT"
    [] OTHER -> str

\* Deliver with the call wrapped in try/catch: every failure is a 404.
DeliverCatchAll(op, res) ==
  CASE op = "getPostBySlug" -> res
    [] res.kind \in {"null", "error"} ->
         IF op = "generateMetadata"
         THEN Returned([title |-> <<"ERR_NOT_FOUND">>, description |-> Undefined])
         ELSE NotFound
    [] op = "generateMetadata" ->
         Returned([title |-> <<ToUpperCase(res.value.title.s), " | LOG">>,
                   description |-> res.value.description])
    [] OTHER ->
         Returned([slug |-> res.value.slug, title |-> res.value.title,
                   contentHtml |-> res.value.contentHtml])

\* What the caller of getPostBySlug makes of its outcome res: a direct caller
\* gets it as it is; generateMetadata and BlogPost turn null into the
\* "ERR_NOT_FOUND" title and notFound(), let an error propagate, and build
\* the metadata and the page from a post.
Deliver(op, res) ==
  CASE op = "getPostBySlug" -> res
    [] res.kind = "error" -> res
    [] res.kind = "null" ->
         IF op = "generateMetadata"
         THEN Returned([title |-> <<"ERR_NOT_FOUND">>, description |-> Undefined])
         ELSE NotFound
    [] op = "generateMetadata" ->
         Returned([title |-> <<ToUpperCase(res.value.title.s), " | LOG">>,
                   description |-> res.value.description])
    [] OTHER ->
         Returned([slug |-> res.value.slug, title |-> res.value.title,
                   contentHtml |-> res.value.contentHtml])

\* StaticParams that leaves out the slugs of files with published false.
StaticParamsPublishedOnly(slugs) ==
  LET keep(slug) == files[FullPath(slug)].front.published # Bool(FALSE)
      F[k \in 0..Len(slugs)] ==
        IF k = 0 THEN <<>>
        ELSE IF keep(slugs[k]) THEN Append(F[k - 1], [slug |-> slugs[k]])
             ELSE F[k - 1]
  IN F[Len(slugs)]

\* slugs.map((slug) => ({ slug }))
StaticParams(slugs) == [k \in 1..Len(slugs) |-> [slug |-> slugs[k]]]

\* The framework calls generateStaticParams(): getAllSlugs() runs and its
\* error, if any, is the call's.
CallGenerateStaticParams(r) ==
  /\ req[r].pc = "idle"
  /\ \E out \in GetAllSlugs :
       req' = [req EXCEPT ![r] =
                 [Idle EXCEPT !.op = "generateStaticParams", !.pc = "done",
                              !.fileNames = out.fileNames,
                              !.slugs = IF out.result.kind = "error" THEN <<>>
                                        ELSE out.result.value,
                              !.result = IF out.result.kind = "error"
                                         THEN out.result
                                         ELSE Returned(StaticParams(out.result.value)),
                              !.console = out.console]]
  /\ UNCHANGED <<dirExists, files>>

\* The framework calls generateMetadata or BlogPost for a slug: the code up
\* to the suspension inside `await getPostBySlug(slug)`.
CallDetailRoute(r, op, slug) ==
  /\ req[r].pc = "idle"
  /\ op \in DetailOps
  /\ LET rd == ReadPost(slug)
         started == [Idle EXCEPT !.op = op, !.arg = slug,
                                 !.console = rd.console]
     IN req' = [req EXCEPT ![r] =
                  CASE rd.kind = "null" ->
                         [started EXCEPT !.pc = "done",
                                         !.result = Deliver(op, ReturnedNull)]
                    [] rd.kind = "throw" ->
                         [started EXCEPT !.pc = "done",
                                         !.result = Deliver(op, Thrown(rd.error))]
                    [] OTHER ->
                         [started EXCEPT !.pc = "render", !.cur = rd.parsed]]
  /\ UNCHANGED <<dirExists, files>>

(***************************************************************************)
(* The pages that list posts: Home, app/page.tsx, and BlogIndex,           *)
(* app/blog/page.tsx                                                       *)
(***************************************************************************)
PageOps == {"Home", "BlogIndex"}

\* The number of posts the home page shows at most.
RecentLimit == 5

\* RecentPosts without the slice.
RecentPostsAll(posts) == posts

\* posts.slice(0, 5)
RecentPosts(posts) ==
  SubSeq(posts, 1, IF Len(posts) < RecentLimit THEN Len(posts) ELSE RecentLimit)

\* What Home renders from the metadata listing: the recent posts, or the
\* "NO LOGS FOUND IN DATABASE." block when there is none.
HomeView(posts) ==
  LET recentPosts == RecentPosts(posts)
  IN [entries |-> recentPosts, empty |-> Len(recentPosts) = 0]

\* What BlogIndex renders: every post, or the "DIRECTORY EMPTY." block.
BlogIndexView(posts) == [entries |-> posts, empty |-> Len(posts) = 0]

\* A caller invokes getAllPosts() or getAllPostsMeta(), directly or as the
\* first statement of Home or BlogIndex: getAllSlugs() runs, and its error, if
\* any, is the call's.
CallGetAllPosts(r, op) ==
  /\ req[r].pc = "idle"
  /\ op \in {"getAllPosts", "getAllPostsMeta"} \cup PageOps
  /\ \E out \in GetAllSlugs :
       LET started == [Idle EXCEPT !.op = op, !.console = out.console]
       IN req' = [req EXCEPT ![r] =
                    IF out.result.kind = "error"
                    THEN [started EXCEPT !.pc = "done", !.result = out.result]
                    ELSE [started EXCEPT !.pc = "loop",
                                         !.slugs = out.result.value]]
  /\ UNCHANGED <<dirExists, files>>

\* Finish whose metadata listing leaves the posts in directory order.
FinishMetaUnsorted(op, posts) ==
  IF op = "getAllPostsMeta"
  THEN Returned(MapToMeta(posts))
  ELSE Returned(SortPosts(posts))

\* The value getAllPosts / getAllPostsMeta returns for the collected posts.
Finish(op, posts) ==
  IF op = "getAllPostsMeta"
  THEN Returned(MapToMeta(SortPosts(posts)))
  ELSE Returned(SortPosts(posts))

\* What the caller makes of the collected posts: getAllPosts and
\* getAllPostsMeta return them, Home and BlogIndex render the metadata listing.
Present(op, posts) ==
  CASE op = "Home" ->
         Returned(HomeView(Finish("getAllPostsMeta", posts).value))
    [] op = "BlogIndex" ->
         Returned(BlogIndexView(Finish("getAllPostsMeta", posts).value))
    [] OTHER -> Finish(op, posts)

\* Loop in which a slug whose file is gone fails the listing.
LoopStrict(r) ==
  /\ req[r].pc = "loop"
  /\ LET q == req[r]
     IN IF q.i > Len(q.slugs)
        THEN req' = [req EXCEPT ![r].pc = "done",
                                ![r].result = Present(q.op, q.posts)]
        ELSE LET rd == ReadPost(q.slugs[q.i])
                 logged == [q EXCEPT !.console = q.console \o rd.console]
             IN req' = [req EXCEPT ![r] =
                          CASE rd.kind = "null" ->
                                 [logged EXCEPT
                                    !.pc = "done",
                                    !.result = Thrown([header |-> "Post not found",
                                                       slug |-> q.slugs[q.i],
                                                       items |-> <<>>])]
                            [] rd.kind = "throw" ->
                                 [logged EXCEPT !.pc = "done",
                                                !.result = Thrown(rd.error)]
                            [] OTHER ->
                                 [logged EXCEPT !.pc = "render",
                                                !.cur = rd.parsed]]
  /\ UNCHANGED <<dirExists, files>>

\* The for loop of getAllPosts: the next slug's getPostBySlug up to its await,
\* or, past the last slug, the sort and the return.
Loop(r) ==
  /\ req[r].pc = "loop"
  /\ LET q == req[r]
     IN IF q.i > Len(q.slugs)
        THEN req' = [req EXCEPT ![r].pc = "done",
                                ![r].result = Present(q.op, q.posts)]
        ELSE LET rd == ReadPost(q.slugs[q.i])
                 logged == [q EXCEPT !.console = q.console \o rd.console]
             IN req' = [req EXCEPT ![r] =
                          CASE rd.kind = "null" ->
                                 [logged EXCEPT !.i = q.i + 1]
                            [] rd.kind = "throw" ->
                                 [logged EXCEPT !.pc = "done",
                                                !.result = Thrown(rd.error)]
                            [] OTHER ->
                                 [logged EXCEPT !.pc = "render",
                                                !.cur = rd.parsed]]
  /\ UNCHANGED <<dirExists, files>>

\* Render with the parsed file kept in one variable of the module instead of
\* a local of the call: a call suspended at the same time overwrites it.
RenderSharedCur(r) ==
  /\ req[r].pc = "render"
  /\ LET q == req[r]
         others == {o \in Reqs \ {r} : req[o].pc = "render"}
         cur == IF others = {} THEN q.cur ELSE req[CHOOSE o \in others : TRUE].cur
         slug == IF q.op \in SlugOps THEN q.arg ELSE q.slugs[q.i]
         post == MakePost(slug, cur.data, cur.content,
                          MarkdownToHtml(cur.content))
     IN req' = [req EXCEPT ![r] =
                  IF q.op \in SlugOps
                  THEN [q EXCEPT !.pc = "done",
                                 !.result = Deliver(q.op, Returned(post)),
                                 !.cur = Idle.cur]
                  ELSE [q EXCEPT !.pc = "loop", !.i = q.i + 1,
                                 !.cur = Idle.cur,
                                 !.posts = IF Listed(post)
                                           THEN Append(q.posts, post)
                                           ELSE q.posts]]
  /\ UNCHANGED <<dirExists, files>>

\* Render with `posts` an array of the module instead of a local of
\* getAllPosts: a push reaches every listing in progress.
RenderSharedPosts(r) ==
  /\ req[r].pc = "render"
  /\ LET q == req[r]
         slug == IF q.op \in SlugOps THEN q.arg ELSE q.slugs[q.i]
         post == MakePost(slug, q.cur.data, q.cur.content,
                          MarkdownToHtml(q.cur.content))
         pushed(o) == IF Listed(post) THEN Append(req[o].posts, post)
                      ELSE req[o].posts
     IN req' = [o \in Reqs |->
                  IF o = r
                  THEN IF q.op \in SlugOps
                       THEN [q EXCEPT !.pc = "done",
                                      !.result = Deliver(q.op, Returned(post)),
                                      !.cur = Idle.cur]
                       ELSE [q EXCEPT !.pc = "loop", !.i = q.i + 1,
                                      !.cur = Idle.cur, !.posts = pushed(r)]
                  ELSE IF q.op \notin SlugOps /\ req[o].pc \in {"loop", "render"}
                                              /\ req[o].op \notin SlugOps
                       THEN [req[o] EXCEPT !.posts = pushed(o)]
                       ELSE req[o]]
  /\ UNCHANGED <<dirExists, files>>

\* markdownToHtml resolves: getPostBySlug builds and returns the post, to its
\* caller if the detail route called it; inside getAllPosts the post is pushed
\* unless it is unpublished.
Render(r) ==
  /\ req[r].pc = "render"
  /\ LET q == req[r]
         slug == IF q.op \in SlugOps THEN q.arg ELSE q.slugs[q.i]
         post == MakePost(slug, q.cur.data, q.cur.content,
                          MarkdownToHtml(q.cur.content))
     IN req' = [req EXCEPT ![r] =
                  IF q.op \in SlugOps
                  THEN [q EXCEPT !.pc = "done",
                                 !.result = Deliver(q.op, Returned(post)),
                                 !.cur = Idle.cur]
                  ELSE [q EXCEPT !.pc = "loop", !.i = q.i + 1,
                                 !.cur = Idle.cur,
                                 !.posts = IF Listed(post)
                                           THEN Append(q.posts, post)
                                           ELSE q.posts]]
  /\ UNCHANGED <<dirExists, files>>

\* The caller has consumed the result.
Ack(r) ==
  /\ req[r].pc = "done"
  /\ req' = [req EXCEPT ![r] = Idle]
  /\ UNCHANGED <<dirExists, files>>

(***************************************************************************)
(* Specification: requests are served one at a time and the directory      *)
(* changes between requests                                                *)
(***************************************************************************)
\* With one request at a time, which slot serves it is immaterial: the first.
Serving == CHOOSE r \in Reqs : \A q \in Reqs : r <= q

Next ==
  \/ Quiet /\ MkDir
  \/ Quiet /\ RmDir
  \/ Quiet /\ \E n \in FileNames : \E c \in ContentsOf(n) : WriteFile(n, c)
  \/ Quiet /\ \E n \in FileNames : Unlink(n)
  \/ Quiet /\ CallGetAllSlugs(Serving)
  \/ Quiet /\ \E slug \in SlugArgs : CallGetPostBySlug(Serving, slug)
  \/ Quiet /\ \E op \in Ops : CallGetAllPosts(Serving, op)
  \/ \E r \in Reqs : Loop(r)
  \/ \E r \in Reqs : Render(r)
  \/ \E r \in Reqs : Ack(r)

Spec == Init /\ [][Next]_vars

(***************************************************************************)
(* Specification of the detail route, over a directory of at most two      *)
(* posts                                                                   *)
(***************************************************************************)
\* The posts the author keeps in the small directory.
SmallNames == {<<"a", ".", "m", "d">>, <<"b", ".", "m", "d">>}

SmallContents == {Hello, World, Draft, NoTitle}

\* The slugs asked for over the small directory: its two and one without file.
SmallSlugArgs == {StripMd(n) : n \in SmallNames} \cup {<<"z">>}

\* The author's changes to the small directory.
SmallChange ==
  \/ MkDir
  \/ RmDir
  \/ \E n \in SmallNames : \E c \in SmallContents : WriteFile(n, c)
  \/ \E n \in SmallNames : Unlink(n)

\* A change to the small directory between requests.
SmallEdit == Quiet /\ SmallChange

PageNext ==
  \/ SmallEdit
  \/ Quiet /\ \E op \in DetailOps : \E slug \in SmallSlugArgs :
                CallDetailRoute(Serving, op, slug)
  \/ \E r \in Reqs : Render(r)
  \/ \E r \in Reqs : Ack(r)

PageSpec == Init /\ [][PageNext]_vars

(***************************************************************************)
(* Specification of concurrent requests: invocations interleave at their   *)
(* awaits, over a small directory that changes only between requests       *)
(***************************************************************************)
ConcNext ==
  \/ SmallEdit
  \/ \E r \in Reqs : \E slug \in SmallSlugArgs : CallGetPostBySlug(r, slug)
  \/ \E r \in Reqs : \E op \in Ops : CallGetAllPosts(r, op)
  \/ \E r \in Reqs : Loop(r)
  \/ \E r \in Reqs : Render(r)
  \/ \E r \in Reqs : Ack(r)

ConcSpec == Init /\ [][ConcNext]_vars

(***************************************************************************)
(* Specification of successive requests: a caller keeps the result of a    *)
(* call while the author changes the small directory and the next call     *)
(* runs                                                                    *)
(***************************************************************************)
\* No invocation is between its call and its return.
NoneInFlight == \A r \in Reqs : req[r].pc \in {"idle", "done"}

\* A call can start: nothing is in flight and some slot holds nothing.
CanCall == NoneInFlight /\ \E r \in Reqs : req[r].pc = "idle"

\* The slot that takes the next call: the first that holds nothing.
FreeSlot == CHOOSE r \in Reqs : /\ req[r].pc = "idle"
                                /\ \A q \in Reqs : req[q].pc = "idle" => r <= q

FreshNext ==
  \/ NoneInFlight /\ SmallChange
  \/ CanCall /\ \E slug \in SmallSlugArgs : CallGetPostBySlug(FreeSlot, slug)
  \/ CanCall /\ CallGetAllPosts(FreeSlot, "getAllPosts")
  \/ \E r \in Reqs : Loop(r)
  \/ \E r \in Reqs : Render(r)
  \/ \E r \in Reqs : Ack(r)

FreshSpec == Init /\ [][FreshNext]_vars

(***************************************************************************)
(* Specification of a listing during which the author removes files: a     *)
(* file can go at any moment, everything else changes between requests     *)
(***************************************************************************)
\* The posts the author keeps: all published, one of them invalid.
RaceContents == {Hello, World, NoTitle}

RaceNext ==
  \/ Quiet /\ MkDir
  \/ Quiet /\ RmDir
  \/ Quiet /\ \E n \in MdNames : \E c \in RaceContents : WriteFile(n, c)
  \/ \E n \in MdNames : Unlink(n)
  \/ Quiet /\ CallGetAllPosts(Serving, "getAllPosts")
  \/ \E r \in Reqs : Loop(r)
  \/ \E r \in Reqs : Render(r)
  \/ \E r \in Reqs : Ack(r)

RaceSpec == Init /\ [][RaceNext]_vars

(***************************************************************************)
(* Specification of the site: the framework builds the static parameters   *)
(* of the detail route and renders the pages, one at a time, over the      *)
(* small directory                                                         *)
(***************************************************************************)
SiteNext ==
  \/ SmallEdit
  \/ Quiet /\ CallGenerateStaticParams(Serving)
  \/ Quiet /\ \E slug \in SmallSlugArgs :
                CallDetailRoute(Serving, "BlogPost", slug)
  \/ Quiet /\ \E op \in PageOps : CallGetAllPosts(Serving, op)
  \/ \E r \in Reqs : Loop(r)
  \/ \E r \in Reqs : Render(r)
  \/ \E r \in Reqs : Ack(r)

SiteSpec == Init /\ [][SiteNext]_vars

(***************************************************************************)
(* Specification of the home page over directories of up to six posts      *)
(***************************************************************************)
\* The file names of the larger directory.
HomeNames ==
  << <<"a", ".", "m", "d">>, <<"b", ".", "m", "d">>, <<"c", ".", "m", "d">>,
     <<"d", ".", "m", "d">>, <<"e", ".", "m", "d">>, <<"f", ".", "m", "d">> >>

\* What each of these files contains: valid posts of three dates, out of order.
HomePosts == <<Hello, World, Hello, Tie, World, Hello>>

\* The directory holding the first k of the files, the one numbered draft (if
\* any) with published: false.
HomeDirectory(k, draft) ==
  [n \in {HomeNames[j] : j \in 1..k} |->
     LET j == CHOOSE j \in 1..k : HomeNames[j] = n
     IN IF j = draft THEN Draft ELSE HomePosts[j]]

\* The directories the home page is rendered over: none, and zero to six
\* posts, all published or one of the six a draft.
HomeStores ==
  {[dir |-> FALSE, files |-> NoFiles]}
    \cup {[dir |-> TRUE, files |-> HomeDirectory(k, 0)] : k \in 0..Len(HomeNames)}
    \cup {[dir |-> TRUE, files |-> HomeDirectory(Len(HomeNames), 3)]}

HomeInit ==
  /\ \E store \in HomeStores : dirExists = store.dir /\ files = store.files
  /\ req = [r \in Reqs |-> Idle]

HomeNext ==
  \/ Quiet /\ CallGetAllPosts(Serving, "Home")
  \/ \E r \in Reqs : Loop(r)
  \/ \E r \in Reqs : Render(r)
  \/ \E r \in Reqs : Ack(r)

HomeSpec == HomeInit /\ [][HomeNext]_vars

(***************************************************************************)
(* Specification of loading single posts: the small directory holds any of *)
(* the markdown files, valid or not                                        *)
(***************************************************************************)
LoadNext ==
  \/ Quiet /\ MkDir
  \/ Quiet /\ RmDir
  \/ Quiet /\ \E n \in SmallNames : \E c \in MdContents : WriteFile(n, c)
  \/ Quiet /\ \E n \in SmallNames : Unlink(n)
  \/ Quiet /\ \E slug \in SmallSlugArgs : CallGetPostBySlug(Serving, slug)
  \/ \E r \in Reqs : Render(r)
  \/ \E r \in Reqs : Ack(r)

LoadSpec == Init /\ [][LoadNext]_vars

(***************************************************************************)
(* Properties                                                              *)
(***************************************************************************)
\* Request r has completed a call of op.
Done(r, op) == req[r].pc = "done" /\ req[r].op = op

\* Request r has completed a call of op that returned a value.
DoneWith(r, op) == Done(r, op) /\ req[r].result.kind = "value"

\* The file a slug names, `${slug}.md`.
PathOf(slug) == slug \o MdExt

\* The time value of a post's date.
DateOf(post) == NewDateGetTime(post.date)

\* C1: when getAllPosts returns normally, every post of the result comes from
\* a file of the directory, and no such file has published explicitly false.
C1_NoUnpublishedInAllPosts ==
  \A r \in Reqs :
    DoneWith(r, "getAllPosts") =>
      \A k \in 1..Len(req[r].result.value) :
        LET path == PathOf(req[r].result.value[k].slug)
        IN /\ path \in DOMAIN files
           /\ files[path].front.published # Bool(FALSE)

\* C1 witness: getAllPosts returned posts from a directory that holds a valid
\* file with published: false.
C1_Witness ==
  \E r \in Reqs :
    /\ DoneWith(r, "getAllPosts")
    /\ Len(req[r].result.value) >= 1
    /\ \E n \in DOMAIN files : EndsWithMd(n) /\ files[n] = Draft

\* C2: the list getAllPosts returns is sorted by date descending: every
\* adjacent pair (a, b) has date(a) >= date(b).
C2_SortedByDateDescending ==
  \A r \in Reqs :
    DoneWith(r, "getAllPosts") =>
      \A k \in 1..(Len(req[r].result.value) - 1) :
        LET a == DateOf(req[r].result.value[k])
            b == DateOf(req[r].result.value[k + 1])
        IN ~a.nan /\ ~b.nan /\ a.t >= b.t

\* C2 witness: getAllPosts returned three posts of at least two dates in an
\* order that is not the order the directory listed them in.
C2_Witness ==
  \E r \in Reqs :
    /\ DoneWith(r, "getAllPosts")
    /\ Len(req[r].result.value) = 3
    /\ DateOf(req[r].result.value[1]) # DateOf(req[r].result.value[3])
    /\ \E k \in 1..3 : req[r].result.value[k].slug # req[r].slugs[k]

\* C3: a valid file with published: false is absent from the getAllPosts
\* result, yet getPostBySlug with its slug returns the post, with published
\* false.
C3_UnpublishedHiddenButRetrievable ==
  \A r \in Reqs :
    /\ DoneWith(r, "getAllPosts") =>
         \A n \in DOMAIN files :
           (EndsWithMd(n) /\ files[n].front.published = Bool(FALSE)) =>
             \A k \in 1..Len(req[r].result.value) :
               PathOf(req[r].result.value[k].slug) # n
    /\ (/\ Done(r, "getPostBySlug")
        /\ PathOf(req[r].arg) \in DOMAIN files
        /\ files[PathOf(req[r].arg)].front.published = Bool(FALSE)
        /\ ValidationErrors(files[PathOf(req[r].arg)].front) = <<>>) =>
         /\ req[r].result.kind = "value"
         /\ req[r].result.value.slug = req[r].arg
         /\ req[r].result.value.published = FALSE
         /\ req[r].result.value.title = files[PathOf(req[r].arg)].front.title

\* C3 witness: getPostBySlug returned the post of a file with published: false.
C3_Witness ==
  \E r \in Reqs :
    /\ DoneWith(r, "getPostBySlug")
    /\ files[PathOf(req[r].arg)].front.published = Bool(FALSE)
    /\ req[r].result.value.published = FALSE

\* The file of a slug exists in the content directory.
HasFile(slug) == dirExists /\ PathOf(slug) \in DOMAIN files

\* C4: getPostBySlug called with a slug that has no file <slug>.md completes
\* in the call itself, before validation and rendering: it returns null, raises
\* nothing and writes no validation warning.
C4_MissingFileReturnsNull ==
  [][\A r \in Reqs :
       (/\ req[r].pc = "idle"
        /\ req'[r].op = "getPostBySlug"
        /\ ~HasFile(req'[r].arg)) =>
         /\ req'[r].pc = "done"
         /\ req'[r].result = ReturnedNull
         /\ req'[r].console = <<>>]_vars

\* C4 witness: getPostBySlug has returned null for a slug without a file, in
\* a directory that holds other posts.
C4_Witness ==
  \E r \in Reqs :
    /\ Done(r, "getPostBySlug")
    /\ ~HasFile(req[r].arg)
    /\ DOMAIN files # {}
    /\ req[r].result.kind = "null"

\* The title is absent, empty or not a string.
BadTitle(v) == v.t # "string" \/ v.s = ""

\* C5: getPostBySlug on an existing file whose title is absent, empty or not
\* a string fails with a validation error that names the 'title' field, and
\* returns no post.
C5_BadTitleFails ==
  \A r \in Reqs :
    (/\ Done(r, "getPostBySlug")
     /\ HasFile(req[r].arg)
     /\ BadTitle(files[PathOf(req[r].arg)].front.title)) =>
      /\ req[r].result.kind = "error"
      /\ req[r].result.value = <<>>
      /\ req[r].result.error.header = "Validation failed"
      /\ req[r].result.error.slug = req[r].arg
      /\ \E k \in 1..Len(req[r].result.error.items) :
           req[r].result.error.items[k] = "Missing or invalid 'title' field"

\* C5 witness: getPostBySlug failed on a file whose title is the empty string.
C5_Witness ==
  \E r \in Reqs :
    /\ Done(r, "getPostBySlug")
    /\ HasFile(req[r].arg)
    /\ files[PathOf(req[r].arg)] = EmptyTitle
    /\ req[r].result.kind = "error"

\* The date is absent or does not parse.
BadDateValue(v) == v.t = "undefined" \/ IsNaN(NewDateGetTime(v))

\* C6: getPostBySlug on an existing file whose date is absent or does not
\* parse fails with a validation error and returns no post.
C6_BadDateFails ==
  \A r \in Reqs :
    (/\ Done(r, "getPostBySlug")
     /\ HasFile(req[r].arg)
     /\ BadDateValue(files[PathOf(req[r].arg)].front.date)) =>
      /\ req[r].result.kind = "error"
      /\ req[r].result.value = <<>>
      /\ req[r].result.error.header = "Validation failed"
      /\ req[r].result.error.slug = req[r].arg

\* C6 witness: getPostBySlug failed on a file whose only fault is a date
\* string that does not parse.
C6_Witness ==
  \E r \in Reqs :
    /\ Done(r, "getPostBySlug")
    /\ HasFile(req[r].arg)
    /\ files[PathOf(req[r].arg)] = BadDate
    /\ req[r].result.kind = "error"
    /\ req[r].result.error.items = <<"Invalid date format">>

\* Some markdown file of the directory fails required-field validation.
SomeInvalidPost ==
  \E n \in DOMAIN files : EndsWithMd(n) /\ ValidationErrors(files[n].front) # <<>>

\* C7: when a markdown file of the directory fails required-field validation,
\* getAllPosts and getAllPostsMeta fail and return no posts at all; a
\* validation error they fail with is that of a file that fails validation.
C7_InvalidPostAbortsListing ==
  \A r \in Reqs :
    (/\ Done(r, "getAllPosts") \/ Done(r, "getAllPostsMeta")
     /\ SomeInvalidPost) =>
      /\ req[r].result.kind = "error"
      /\ req[r].result.value = <<>>
      /\ req[r].result.error.header = "Validation failed" =>
           /\ HasFile(req[r].result.error.slug)
           /\ req[r].result.error.items # <<>>
           /\ req[r].result.error.items =
                ValidationErrors(files[PathOf(req[r].result.error.slug)].front)

\* C7 witness: getAllPosts failed with a validation error after it had
\* already collected a valid post.
C7_Witness ==
  \E r \in Reqs :
    /\ Done(r, "getAllPosts")
    /\ req[r].result.kind = "error"
    /\ req[r].result.error.header = "Validation failed"
    /\ Len(req[r].posts) >= 1

\* Two entries of a listing are markdown files that normalize to one slug.
SameSlugTwice(fileNames) ==
  \E i, j \in 1..Len(fileNames) :
    /\ i < j
    /\ EndsWithMd(fileNames[i])
    /\ EndsWithMd(fileNames[j])
    /\ StripMd(fileNames[i]) = StripMd(fileNames[j])

LowerCase(name) ==
  [k \in 1..Len(name) |->
     CASE name[k] = "A" -> "a"
       [] name[k] = "M" -> "m"
       [] name[k] = "D" -> "d"
       [] OTHER -> name[k]]

\* The directory holds two markdown files whose names differ only by case.
CaseTwins ==
  \E m, n \in DOMAIN files :
    /\ m # n
    /\ EndsWithMd(m)
    /\ EndsWithMd(n)
    /\ LowerCase(m) = LowerCase(n)

\* C9: two files whose names differ only by letter case are rejected by
\* getAllSlugs with the duplicate-slug error, and getAllPosts returns no posts.
C9_CaseTwinsRejected ==
  \A r \in Reqs :
    (/\ \/ Done(r, "getAllSlugs")
        \/ Done(r, "getAllPosts")
        \/ Done(r, "getAllPostsMeta")
     /\ CaseTwins) =>
      /\ req[r].result.kind = "error"
      /\ req[r].result.error.header = "Duplicate slug detected"

\* C10: when the content directory does not exist, getAllSlugs returns the
\* empty list without raising an error, and getAllPosts and getAllPostsMeta
\* return the empty list.
C10_MissingDirectoryIsEmpty ==
  \A r \in Reqs :
    (/\ ~dirExists
     /\ \/ Done(r, "getAllSlugs")
        \/ Done(r, "getAllPosts")
        \/ Done(r, "getAllPostsMeta")) =>
      req[r].result = Returned(<<>>)

\* C10 witness: getAllPostsMeta has returned while the directory is missing.
C10_Witness ==
  \E r \in Reqs :
    /\ ~dirExists
    /\ Done(r, "getAllPostsMeta")
    /\ req[r].result.kind = "value"

\* The last three characters of the name are '.', 'm', 'd'.
IsMarkdownName(n) ==
  /\ Len(n) >= 3
  /\ n[Len(n) - 2] = "."
  /\ n[Len(n) - 1] = "m"
  /\ n[Len(n)] = "d"

\* A listing names some entry twice.
Repeats(fileNames) ==
  \E i, j \in 1..Len(fileNames) : i < j /\ fileNames[i] = fileNames[j]

\* C11: getAllSlugs returns exactly the base names of the directory entries
\* whose name ends in ".md": every such entry contributes its name without
\* the extension, once, and no other entry contributes a slug; a listing
\* without repeated entries is never rejected.
C11_SlugsAreMarkdownBaseNames ==
  \A r \in Reqs :
    (Done(r, "getAllSlugs") /\ dirExists) =>
      /\ ~Repeats(req[r].fileNames) => req[r].result.kind = "value"
      /\ req[r].result.kind = "value" =>
           LET slugs == req[r].result.value
           IN /\ \A k \in 1..Len(slugs) : PathOf(slugs[k]) \in DOMAIN files
              /\ \A n \in DOMAIN files :
                   IsMarkdownName(n) <=>
                     \E k \in 1..Len(slugs) : PathOf(slugs[k]) = n
              /\ Len(slugs) =
                   Cardinality({n \in DOMAIN files : IsMarkdownName(n)})

\* C11 witness: getAllSlugs returned two slugs from a directory that also
\* holds an entry without the ".md" suffix.
C11_Witness ==
  \E r \in Reqs :
    /\ DoneWith(r, "getAllSlugs")
    /\ Len(req[r].result.value) = 2
    /\ \E n \in DOMAIN files : ~IsMarkdownName(n)

\* The file has a usable title and date and no description.
ValidWithoutDescription(f) ==
  /\ ~BadTitle(f.front.title)
  /\ ~BadDateValue(f.front.date)
  /\ f.front.description.t = "undefined"

\* C13: a file with a valid title and date and no description loads:
\* getPostBySlug returns the post with description absent and logs exactly the
\* description warning; getAllPosts never fails on account of such a file and,
\* unless the file is unpublished, lists it.
C13_MissingDescriptionOnlyWarns ==
  \A r \in Reqs :
    /\ (/\ Done(r, "getPostBySlug")
        /\ HasFile(req[r].arg)
        /\ ValidWithoutDescription(files[PathOf(req[r].arg)])) =>
         /\ req[r].result.kind = "value"
         /\ req[r].result.value.slug = req[r].arg
         /\ req[r].result.value.description = Undefined
         /\ req[r].console =
              <<[slug |-> req[r].arg,
                 text |-> "Missing 'description' field (recommended for SEO)"]>>
    /\ (Done(r, "getAllPosts") /\ req[r].result.kind = "error"
          /\ req[r].result.error.header = "Validation failed") =>
         ~ValidWithoutDescription(files[PathOf(req[r].result.error.slug)])
    /\ DoneWith(r, "getAllPosts") =>
         \A n \in DOMAIN files :
           (/\ IsMarkdownName(n)
            /\ ValidWithoutDescription(files[n])
            /\ files[n].front.published # Bool(FALSE)) =>
             \E k \in 1..Len(req[r].result.value) :
               /\ PathOf(req[r].result.value[k].slug) = n
               /\ req[r].result.value[k].description = Undefined

\* C13 witness: getPostBySlug returned a post without description and logged
\* a warning.
C13_Witness ==
  \E r \in Reqs :
    /\ DoneWith(r, "getPostBySlug")
    /\ req[r].result.value.description = Undefined
    /\ Len(req[r].console) = 1

\* C14: the published field of a post returned by getPostBySlug is false
\* exactly when the frontmatter sets published to the boolean false; with
\* published absent or of any other value the post has published = true and
\* getAllPosts lists it.
C14_PublishedDefaultsTrue ==
  \A r \in Reqs :
    /\ DoneWith(r, "getPostBySlug") =>
         LET v == files[PathOf(req[r].arg)].front.published
         IN /\ req[r].result.value.published \in BOOLEAN
            /\ req[r].result.value.published = FALSE <=>
                 (v.t = "boolean" /\ v.b = FALSE)
    /\ DoneWith(r, "getAllPosts") =>
         /\ \A k \in 1..Len(req[r].result.value) :
              req[r].result.value[k].published = TRUE
         /\ \A n \in DOMAIN files :
              (/\ IsMarkdownName(n)
               /\ ~(/\ files[n].front.published.t = "boolean"
                    /\ files[n].front.published.b = FALSE)) =>
                \E k \in 1..Len(req[r].result.value) :
                  PathOf(req[r].result.value[k].slug) = n

\* C14 witness: getPostBySlug returned a post with published = true for a
\* file whose frontmatter gives published the string "false".
C14_Witness ==
  \E r \in Reqs :
    /\ DoneWith(r, "getPostBySlug")
    /\ files[PathOf(req[r].arg)].front.published = Str("false")
    /\ req[r].result.value.published = TRUE

\* C16: no step of getAllSlugs, getPostBySlug, getAllPosts or getAllPostsMeta
\* changes the content directory, whether the call succeeds, returns null or
\* fails.
C16_PipelineLeavesStoreAlone ==
  [][req' # req => (dirExists' = dirExists /\ files' = files)]_vars

\* C16 witness: a call has failed over a directory that holds files.
C16_Witness ==
  \E r \in Reqs :
    /\ req[r].pc = "done"
    /\ req[r].result.kind = "error"
    /\ Cardinality(DOMAIN files) >= 2

\* The markdown files of the directory that are not marked published: false.
PublishedFiles ==
  {n \in DOMAIN files : IsMarkdownName(n) /\ files[n].front.published # Bool(FALSE)}

\* C20: when getAllPosts returns normally the result is a permutation of the
\* published posts: every markdown file not marked published: false appears
\* exactly once, with its own title, and nothing else appears.
C20_AllPostsIsPermutationOfPublished ==
  \A r \in Reqs :
    DoneWith(r, "getAllPosts") =>
      LET posts == req[r].result.value
      IN /\ Len(posts) = Cardinality(PublishedFiles)
         /\ \A n \in PublishedFiles :
              Cardinality({k \in 1..Len(posts) : PathOf(posts[k].slug) = n}) = 1
         /\ \A k \in 1..Len(posts) :
              /\ PathOf(posts[k].slug) \in PublishedFiles
              /\ posts[k].title = files[PathOf(posts[k].slug)].front.title

\* C20 witness: getAllPosts returned two posts from a directory of three
\* markdown files, one of them unpublished.
C20_Witness ==
  \E r \in Reqs :
    /\ DoneWith(r, "getAllPosts")
    /\ Len(req[r].result.value) = 2
    /\ Cardinality({n \in DOMAIN files : IsMarkdownName(n)}) = 3

\* C19: the detail route keeps "not found" apart from a validation failure:
\* when no file exists for the slug, BlogPost calls notFound() and
\* generateMetadata returns the title "ERR_NOT_FOUND"; when the file fails
\* validation, both fail with the validation error, and neither answer of the
\* first kind is ever given for a slug that has a file.
C19_NotFoundDistinctFromInvalid ==
  \A r \in Reqs :
    (req[r].pc = "done" /\ req[r].op \in DetailOps) =>
      LET res == req[r].result
          absent == ~HasFile(req[r].arg)
          saysNotFound ==
            \/ res.kind = "notFound"
            \/ res.kind = "value" /\ req[r].op = "generateMetadata"
                 /\ res.value.title = <<"ERR_NOT_FOUND">>
      IN /\ absent => saysNotFound
         /\ saysNotFound => absent
         /\ (req[r].op = "BlogPost" /\ absent) => res.kind = "notFound"
         /\ (~absent /\ \/ BadTitle(files[PathOf(req[r].arg)].front.title)
                        \/ BadDateValue(files[PathOf(req[r].arg)].front.date)) =>
              /\ res.kind = "error"
              /\ res.error.header = "Validation failed"
              /\ res.error.slug = req[r].arg

\* C19 witness: BlogPost failed with the validation error of an existing file.
C19_Witness ==
  \E r \in Reqs :
    /\ Done(r, "BlogPost")
    /\ HasFile(req[r].arg)
    /\ req[r].result.kind = "error"

\* The five fields of a PostMeta.
MetaFields == {"slug", "title", "description", "date", "tags"}

\* The call raised the duplicate-slug error of getAllSlugs.
IsDuplicate(res) ==
  res.kind = "error" /\ res.error.header = "Duplicate slug detected"

\* C12: when getAllPosts and getAllPostsMeta have run over the same directory
\* and the same listing of it, both fail with the same error or both return;
\* the metadata listing then has one entry per post of getAllPosts, in the same
\* order, holding exactly the post's slug, title, description, date and tags.
C12_MetaMatchesAllPosts ==
  \A r1, r2 \in Reqs :
    LET p == req[r1]
        m == req[r2]
    IN (/\ Done(r1, "getAllPosts") /\ Done(r2, "getAllPostsMeta")
        /\ p.slugs = m.slugs
        /\ ~IsDuplicate(p.result) /\ ~IsDuplicate(m.result))
       => /\ m.result.kind = p.result.kind
          /\ m.result.error = p.result.error
          /\ m.result.kind = "value" =>
               /\ Len(m.result.value) = Len(p.result.value)
               /\ \A k \in 1..Len(p.result.value) :
                    /\ DOMAIN m.result.value[k] = MetaFields
                    /\ \A f \in MetaFields :
                         m.result.value[k][f] = p.result.value[k][f]

\* Both listings have returned two posts for the same listing of the directory.
C12_Witness ==
  \E r1, r2 \in Reqs :
    /\ DoneWith(r1, "getAllPosts") /\ DoneWith(r2, "getAllPostsMeta")
    /\ req[r1].slugs = req[r2].slugs
    /\ Len(req[r2].result.value) = 2
    /\ req[r2].result.value[1].slug # req[r2].slugs[1]

AlonePost(slug) ==
  LET rd == ReadPost(slug)
  IN CASE rd.kind = "null" -> ReturnedNull
       [] rd.kind = "throw" -> Thrown(rd.error)
       [] OTHER -> Returned(MakePost(slug, rd.parsed.data, rd.parsed.content,
                                     MarkdownToHtml(rd.parsed.content)))

\* What the loop of getAllPosts has collected after the first k of slugs when
\* nothing else runs: the posts, or the first error.
RECURSIVE AloneCollect(_, _)
AloneCollect(slugs, k) ==
  IF k = 0 THEN Returned(<<>>)
  ELSE LET before == AloneCollect(slugs, k - 1)
           one == AlonePost(slugs[k])
       IN CASE before.kind = "error" -> before
            [] one.kind = "error" -> one
            [] one.kind = "null" -> before
            [] OTHER -> IF Listed(one.value)
                        THEN Returned(Append(before.value, one.value))
                        ELSE before

\* What getAllPosts / getAllPostsMeta returns for a listing when nothing else
\* runs.
AloneAllPosts(op, slugs) ==
  LET all == AloneCollect(slugs, Len(slugs))
  IN IF all.kind = "error" THEN all ELSE Finish(op, all.value)

ListOps == {"getAllPosts", "getAllPostsMeta"}

\* C18: with any number of getAllPosts / getPostBySlug invocations suspended
\* and resumed in any order over an unchanged directory, every invocation is at
\* each point where it would be when run alone: a completed one holds the
\* result of running alone, and a listing in progress has collected the posts
\* it collects alone and holds the parsed file of its own current slug.
C18_InvocationsIndependent ==
  \A r \in Reqs :
    LET q == req[r]
    IN /\ Done(r, "getPostBySlug") => q.result = AlonePost(q.arg)
       /\ (q.op = "getPostBySlug" /\ q.pc = "render") =>
            q.cur = Matter(files[PathOf(q.arg)])
       /\ (q.op \in ListOps /\ q.pc = "done" /\ ~IsDuplicate(q.result)) =>
            q.result = AloneAllPosts(q.op, q.slugs)
       /\ (q.op \in ListOps /\ q.pc \in {"loop", "render"}) =>
            Returned(q.posts) = AloneCollect(q.slugs, q.i - 1)
       /\ (q.op \in ListOps /\ q.pc = "render") =>
            q.cur = Matter(files[PathOf(q.slugs[q.i])])

\* Two listings are suspended at markdownToHtml at once, each having collected
\* a post already.
C18_Witness ==
  \E r1, r2 \in Reqs :
    /\ r1 # r2
    /\ req[r1].op = "getAllPosts" /\ req[r1].pc = "render"
    /\ req[r2].op \in ListOps /\ req[r2].pc = "render"
    /\ Len(req[r1].posts) = 1 /\ Len(req[r2].posts) = 1

\* C17: whatever results earlier calls left and however the directory changed
\* since, a getPostBySlug or getAllPosts call that completes holds the result
\* computed from the directory as it is during that call (for getAllPosts:
\* from the listing the call itself read).
C17_DerivedFreshOnEveryCall ==
  [][\A r \in Reqs :
       (req[r].pc # "done" /\ req'[r].pc = "done") =>
         LET q == req'[r]
         IN /\ dirExists' = dirExists /\ files' = files
            /\ q.op = "getPostBySlug" => q.result = AlonePost(q.arg)
            /\ (q.op = "getAllPosts" /\ ~IsDuplicate(q.result)) =>
                 q.result = AloneAllPosts(q.op, q.slugs)]_vars

\* The directory changed between two completed calls: the result of the later
\* one is that of the directory as it is now, a post or a listing of posts,
\* and the earlier call's result, still held, is another.
C17_Witness ==
  \E r1, r2 \in Reqs :
    /\ r1 # r2
    /\ \/ /\ DoneWith(r1, "getPostBySlug") /\ DoneWith(r2, "getPostBySlug")
          /\ req[r1].arg = req[r2].arg
          /\ req[r2].result = AlonePost(req[r2].arg)
       \/ /\ DoneWith(r1, "getAllPosts") /\ DoneWith(r2, "getAllPosts")
          /\ req[r2].result = AloneAllPosts("getAllPosts", req[r2].slugs)
          /\ Len(req[r2].result.value) > Len(req[r1].result.value)
    /\ req[r1].result # req[r2].result

\* The slugs of a sequence of posts.
SlugsIn(posts) == {posts[k].slug : k \in 1..Len(posts)}

\* C21: when the loop of getAllPosts reaches a listed slug whose file is gone
\* by then, the step raises nothing, pushes nothing and logs nothing: the
\* listing goes on with the next slug; and when the listing returns, it returns
\* the posts it collected from the remaining files, each once, sorted by date
\* descending.
C21_RemovedFileIsSkipped ==
  [][\A r \in Reqs :
       LET q == req[r]
           n == req'[r]
       IN /\ (/\ q.op = "getAllPosts" /\ q.pc = "loop" /\ n # q
               /\ q.i <= Len(q.slugs) /\ ~HasFile(q.slugs[q.i]))
             => n = [q EXCEPT !.i = q.i + 1]
          /\ (/\ q.op = "getAllPosts" /\ q.pc = "loop" /\ n.pc = "done"
               /\ q.i > Len(q.slugs))
             => /\ n.result.kind = "value"
                /\ Len(n.result.value) = Len(q.posts)
                /\ SlugsIn(n.result.value) = SlugsIn(q.posts)
                /\ SlugsIn(q.posts) \subseteq {q.slugs[k] : k \in 1..Len(q.slugs)}
                /\ \A k \in 1..(Len(n.result.value) - 1) :
                     LET a == DateOf(n.result.value[k])
                         b == DateOf(n.result.value[k + 1])
                     IN ~a.nan /\ ~b.nan /\ a.t >= b.t]_vars

\* getAllPosts listed three files, every post of the directory is published,
\* and it returned two posts, the later one first though listed second: the
\* file of the third slug was gone when the loop reached it.
C21_Witness ==
  \E r \in Reqs :
    /\ DoneWith(r, "getAllPosts")
    /\ Len(req[r].slugs) = 3
    /\ Len(req[r].result.value) = 2
    /\ \E k \in 1..3 : /\ req[r].slugs[k] \notin SlugsIn(req[r].result.value)
                        /\ ~HasFile(req[r].slugs[k])
    /\ DateOf(req[r].result.value[1]).t > DateOf(req[r].result.value[2]).t
    /\ \E j, k \in 1..3 : /\ j < k
                           /\ req[r].slugs[j] = req[r].result.value[2].slug
                           /\ req[r].slugs[k] = req[r].result.value[1].slug

\* The slugs of the valid markdown files that have published: false.
UnpublishedSlugs ==
  {StripMd(n) : n \in {m \in DOMAIN files :
                         /\ EndsWithMd(m)
                         /\ ValidationErrors(files[m].front) = <<>>
                         /\ files[m].front.published = Bool(FALSE)}}

\* C22: generateStaticParams returns one parameter per markdown file, that of
\* a file with published: false included; Home and BlogIndex show no entry for
\* such a file; and BlogPost for its slug renders the page from the file.
C22_UnpublishedPageStillGenerated ==
  \A r \in Reqs :
    /\ (Done(r, "generateStaticParams") /\ req[r].result.kind = "value") =>
         /\ Len(req[r].result.value) =
              Cardinality({n \in DOMAIN files : EndsWithMd(n)})
         /\ \A slug \in UnpublishedSlugs :
              \E k \in 1..Len(req[r].result.value) :
                req[r].result.value[k] = [slug |-> slug]
    /\ \A op \in PageOps :
         (Done(r, op) /\ req[r].result.kind = "value") =>
           \A k \in 1..Len(req[r].result.value.entries) :
             req[r].result.value.entries[k].slug \notin UnpublishedSlugs
    /\ (Done(r, "BlogPost") /\ req[r].arg \in UnpublishedSlugs) =>
         /\ req[r].result.kind = "value"
         /\ req[r].result.value.slug = req[r].arg
         /\ req[r].result.value.contentHtml =
              MarkdownToHtml(files[PathOf(req[r].arg)].body)

\* generateStaticParams returned the parameters of two files, one of which
\* has published: false.
C22_Witness ==
  \E r \in Reqs :
    /\ DoneWith(r, "generateStaticParams")
    /\ Len(req[r].result.value) = 2
    /\ \E k \in 1..2 : req[r].result.value[k].slug \in UnpublishedSlugs
    /\ \E k \in 1..2 : req[r].result.value[k].slug \notin UnpublishedSlugs

\* The published valid posts of the directory, as a set of slugs.
PublishedSlugs ==
  {StripMd(n) : n \in {m \in DOMAIN files :
                         /\ EndsWithMd(m)
                         /\ ValidationErrors(files[m].front) = <<>>
                         /\ files[m].front.published # Bool(FALSE)}}

\* C23: with meta the n entries getAllPostsMeta resolved to inside Home, the
\* page shows min(5, n) entries, the k-th being meta[k]; these are published
\* posts, none older than a published post that is not shown; and the page
\* shows the empty-state block exactly when n = 0.
C23_HomeShowsFirstFive ==
  \A r \in Reqs :
    (Done(r, "Home") /\ req[r].result.kind = "value") =>
      LET meta == Finish("getAllPostsMeta", req[r].posts).value
          n == Len(meta)
          view == req[r].result.value
          shown == {view.entries[k].slug : k \in 1..Len(view.entries)}
      IN /\ n = Cardinality(PublishedSlugs)
         /\ Len(view.entries) = (IF n < 5 THEN n ELSE 5)
         /\ \A k \in 1..Len(view.entries) : view.entries[k] = meta[k]
         /\ shown \subseteq PublishedSlugs
         /\ Cardinality(shown) = Len(view.entries)
         /\ \A k \in 1..Len(view.entries) :
              \A slug \in PublishedSlugs \ shown :
                LET a == NewDateGetTime(view.entries[k].date)
                    b == NewDateGetTime(files[PathOf(slug)].front.date)
                IN ~a.nan /\ ~b.nan /\ a.t >= b.t
         /\ view.empty <=> n = 0

\* Home rendered over six published posts: five entries, the sixth left out.
C23_Witness ==
  \E r \in Reqs :
    /\ DoneWith(r, "Home")
    /\ Cardinality(PublishedSlugs) = 6
    /\ Len(req[r].result.value.entries) = 5
    /\ ~req[r].result.value.empty

\* C24: getPostBySlug on a file whose title is absent, empty or not a string
\* and whose date is absent or does not parse fails in the call itself, before
\* markdownToHtml is called, with one validation error that lists the title
\* problem and the date problem; and a call that does reach markdownToHtml is
\* one whose file passed validation.
C24_AllProblemsInOneError ==
  [][\A r \in Reqs :
       LET q == req[r]
           n == req'[r]
           front == files[PathOf(n.arg)].front
       IN /\ (/\ n.op = "getPostBySlug" /\ n.pc = "done" /\ q.pc # "done"
               /\ HasFile(n.arg)
               /\ BadTitle(front.title) /\ BadDateValue(front.date))
             => /\ q.pc = "idle"
                /\ n.result.kind = "error"
                /\ n.result.error.header = "Validation failed"
                /\ n.result.error.slug = n.arg
                /\ Len(n.result.error.items) = 2
                /\ n.result.error.items[1] = "Missing or invalid 'title' field"
                /\ n.result.error.items[2] \in
                     {"Missing 'date' field", "Invalid date format"}
          /\ (n.op = "getPostBySlug" /\ n.pc = "render" /\ q.pc # "render")
             => /\ HasFile(n.arg)
                /\ ~BadTitle(front.title) /\ ~BadDateValue(front.date)]_vars

\* getPostBySlug failed on a file without title whose date does not parse,
\* with an error of two items.
C24_Witness ==
  \E r \in Reqs :
    /\ Done(r, "getPostBySlug")
    /\ HasFile(req[r].arg)
    /\ files[PathOf(req[r].arg)] = NoTitleBadDate
    /\ req[r].result.kind = "error"
    /\ Len(req[r].result.error.items) = 2

====
